---- MODULE Spec2Model ----
(***************************************************************************)
(* A model of mate (src/mate.go): a time tracker that appends start/stop   *)
(* events to a CSV file and derives durations from it.                     *)
(*                                                                         *)
(* The file is modelled as the sequence of its characters, so that the     *)
(* unescaped write of writeTicket and the encoding/csv reader used by      *)
(* getRecords are two different conversions.  A title is a sequence of     *)
(* one-character strings.                                                  *)
(***************************************************************************)
EXTENDS Integers, Sequences, FiniteSets, TLC

VARIABLES
    file,     \* the characters of ~/.mate.csv, or NoFile
    clock,    \* the wall clock, in seconds
    written,  \* records appended to the file since it was last cleared
    last,     \* the last command run: its name, argument, output, the file before
              \* it and, for a stop or a restart run right after another one, the
              \* output of that one (again)
    calc,     \* the values a derivation is applied to, and its results
    running   \* the invocations of mate in flight, when they run side by side

vars == <<file, clock, written, last, calc, running>>

----------------------------------------------------------------------------
(* Bounds *)

\* number of records one run of the model appends to the file
MaxEvents == 3
\* last wall-clock second of the modelled window
MaxClock == 1
\* longest sequence of records or tickets a derivation is applied to
MaxRecords == 3
\* latest timestamp and longest duration a derivation is applied to
MaxTime == 1

----------------------------------------------------------------------------
(* Constants of the program *)

STOP_TOKEN == <<"m", "a", "t", "e", ":", "S", "T", "O", "P">>

CSV_HEADER == <<"t", "i", "m", "e", "s", "t", "a", "m", "p", ",",
                "t", "i", "t", "l", "e", "\n">>

\* The minutes and seconds fields of the layout "2006/01/02 15:04:05"; the
\* date and the hour are the same for every instant of the modelled window.
TIME_FORMAT == <<"0", "4", ":", "0", "5">>

\* the file does not exist
NoFile == <<"ENOENT">>

\* the byte os.Truncate pads a shorter file with
NUL == "NUL"

QUOTE == "\""
COMMA == ","
NL == "\n"

----------------------------------------------------------------------------
(* time.Time.Format and time.Parse for TIME_FORMAT *)

DigitChars == <<"0", "1", "2", "3", "4", "5", "6", "7", "8", "9">>

IsDigit(c) == \E i \in 1..10 : DigitChars[i] = c

DigitVal(c) == (CHOOSE i \in 1..10 : DigitChars[i] = c) - 1

\* t is a wall-clock second; Format drops everything below the second
Format(t) ==
    LET mm == t \div 60
        ss == t % 60
    IN  <<DigitChars[((mm \div 10) % 10) + 1], DigitChars[(mm % 10) + 1],
          ":",
          DigitChars[(ss \div 10) + 1], DigitChars[(ss % 10) + 1]>>

\* time.Parse: the text has to match the layout field by field
Parse(text) ==
    IF /\ Len(text) = Len(TIME_FORMAT)
       /\ \A i \in {1, 2, 4, 5} : IsDigit(text[i])
       /\ text[3] = TIME_FORMAT[3]
       /\ (DigitVal(text[1]) * 10) + DigitVal(text[2]) < 60
       /\ (DigitVal(text[4]) * 10) + DigitVal(text[5]) < 60
    THEN [err |-> "", time |-> (((DigitVal(text[1]) * 10) + DigitVal(text[2])) * 60)
                               + (DigitVal(text[4]) * 10) + DigitVal(text[5])]
    ELSE [err |-> "parsing time", time |-> 0]

----------------------------------------------------------------------------
(* encoding/csv Reader with its default settings, as getRecords and        *)
(* ensureCSVExists use it: Comma ',', LazyQuotes false, FieldsPerRecord 0  *)

\* least index in p..e holding c, 0 when there is none
RECURSIVE IndexByte(_, _, _, _)

IndexByte(s, c, p, e) ==
    IF p > e THEN 0
    ELSE IF s[p] = c THEN p
    ELSE IndexByte(s, c, p + 1, e)

\* readLine: index of the last character of the line that starts at p
LineEnd(s, p) ==
    LET i == IndexByte(s, NL, p, Len(s))
    IN  IF i = 0 THEN Len(s) ELSE i

\* lengthNL of the line s[p..e]
lengthNL(s, p, e) == IF p <= e /\ s[e] = NL THEN 1 ELSE 0

RECURSIVE parseRecord(_, _, _, _), quotedField(_, _, _, _, _)

\* the parseField loop of readRecord on the line s[p..e]
parseRecord(s, p, e, fields) ==
    IF p > e \/ s[p] # QUOTE
    THEN \* non-quoted field
         LET i == IndexByte(s, COMMA, p, e)
             fe == IF i # 0 THEN i - 1 ELSE e - lengthNL(s, p, e)
         IN  IF IndexByte(s, QUOTE, p, fe) # 0
             THEN [err |-> "ErrBareQuote", fields |-> fields, next |-> e + 1]
             ELSE IF i # 0
             THEN parseRecord(s, i + 1, e, Append(fields, SubSeq(s, p, fe)))
             ELSE [err |-> "", fields |-> Append(fields, SubSeq(s, p, fe)),
                   next |-> e + 1]
    ELSE quotedField(s, p + 1, e, <<>>, fields)

\* the quoted-field loop of readRecord: buf is the field read so far
quotedField(s, p, e, buf, fields) ==
    LET i == IndexByte(s, QUOTE, p, e)
    IN  IF i # 0
        THEN LET b == buf \o SubSeq(s, p, i - 1)
                 q == i + 1
             IN  IF q <= e /\ s[q] = QUOTE
                 THEN quotedField(s, q + 1, e, Append(b, QUOTE), fields)
                 ELSE IF q <= e /\ s[q] = COMMA
                 THEN parseRecord(s, q + 1, e, Append(fields, b))
                 ELSE IF lengthNL(s, q, e) = e - q + 1
                 THEN [err |-> "", fields |-> Append(fields, b), next |-> e + 1]
                 ELSE [err |-> "ErrQuote", fields |-> fields, next |-> e + 1]
        ELSE IF p <= e
        THEN \* end of line inside the quotes: the field goes on in the next line
             quotedField(s, e + 1, LineEnd(s, e + 1), buf \o SubSeq(s, p, e), fields)
        ELSE \* end of file inside the quotes
             [err |-> "ErrQuote", fields |-> fields, next |-> e + 1]

RECURSIVE readRecord(_, _)

\* Reader.readRecord from position p: empty lines are skipped
readRecord(s, p) ==
    IF p > Len(s) THEN [err |-> "EOF", fields |-> <<>>, next |-> p]
    ELSE IF s[p] = NL THEN readRecord(s, p + 1)
    ELSE parseRecord(s, p, LineEnd(s, p), <<>>)

RECURSIVE readAllFrom(_, _, _, _)

\* one turn of the loop of Reader.ReadAll, r being the record just read;
\* n is FieldsPerRecord (0 until the first record)
readAllNext(s, n, recs, r) ==
    IF r.err = "EOF" THEN [err |-> "", records |-> recs]
    ELSE IF r.err # "" THEN [err |-> r.err, records |-> <<>>]
    ELSE IF n > 0 /\ Len(r.fields) # n
    THEN [err |-> "ErrFieldCount", records |-> <<>>]
    ELSE readAllFrom(s, r.next, Len(r.fields), Append(recs, r.fields))

readAllFrom(s, p, n, recs) == readAllNext(s, n, recs, readRecord(s, p))

ReadAll(s) == readAllFrom(s, 1, 0, <<>>)

----------------------------------------------------------------------------
(* The storage functions of mate.go.  err # "" in a result is log.Fatal.   *)

\* os.OpenFile with O_CREATE
created(f) == IF f = NoFile THEN <<>> ELSE f

\* ensureCSVExists after r.Read() gave r on the file g
headerChecked(g, r) ==
    IF r.err = "EOF" THEN [err |-> "", file |-> g \o CSV_HEADER]
    ELSE IF r.err # "" THEN [err |-> r.err, file |-> g]
    ELSE [err |-> "", file |-> g]

\* ensureCSVExists: creates the file, writes the header into an empty one
ensureCSVExists(f) == headerChecked(created(f), readRecord(created(f), 1))

\* time.Parse of the first field of a raw record, and the record made of it
toRecord(ts, rawRecord) ==
    IF ts.err # "" THEN [err |-> ts.err]
    ELSE IF Len(rawRecord) < 2 THEN [err |-> "index out of range"]
    ELSE [err |-> "", record |-> [timestamp |-> ts.time, title |-> rawRecord[2]]]

RECURSIVE toRecords(_, _, _)

\* one turn of the loop of getRecords, r being the record made of rawRecords[i]
toRecordsNext(raw, i, records, r) ==
    IF r.err # "" THEN [err |-> r.err, records |-> <<>>]
    ELSE toRecords(raw, i + 1, Append(records, r.record))

\* the loop of getRecords over rawRecords from index i (1-based) on
toRecords(raw, i, records) ==
    IF i > Len(raw) THEN [err |-> "", records |-> records]
    ELSE IF i = 1 THEN toRecords(raw, 2, records)
    ELSE toRecordsNext(raw, i, records, toRecord(Parse(raw[i][1]), raw[i]))

\* getRecords after r.ReadAll() gave raw
parsed(raw) ==
    IF raw.err # "" THEN [err |-> raw.err, records |-> <<>>]
    ELSE toRecords(raw.records, 1, <<>>)

\* what getRecords returns, with the file as it leaves it
withFile(f, rs) == [err |-> rs.err, file |-> f, records |-> rs.records]

\* getRecords after ensureCSVExists gave c
readFile(c) ==
    IF c.err # "" THEN [err |-> c.err, file |-> c.file, records |-> <<>>]
    ELSE withFile(c.file, parsed(ReadAll(c.file)))

getRecords(f) == readFile(ensureCSVExists(f))

\* the line writeTicket builds: the title goes between two quotes as it is
literalRecord(title, now) ==
    <<QUOTE>> \o Format(now) \o <<QUOTE>> \o <<COMMA>> \o <<QUOTE>> \o title
    \o <<QUOTE>> \o <<NL>>

\* writeTicket after ensureCSVExists gave c: the line goes to the end of the file
appended(c, line) ==
    IF c.err # "" THEN [err |-> c.err, file |-> c.file]
    ELSE [err |-> "", file |-> c.file \o line]

writeTicket(f, title, now) == appended(ensureCSVExists(f), literalRecord(title, now))

----------------------------------------------------------------------------
(* The session commands of mate.go.  Each returns the file afterwards,     *)
(* what it printed (out), and the title it printed (rep).                  *)

Fatal(f) == [file |-> f, out |-> "fatal", rep |-> <<>>]

\* Working without the test for a STOP: any non-empty file counts as working
Working_ignoresStop(records) == Len(records) # 0

\* the working flag of stopTicket
Working(records) ==
    /\ Len(records) # 0
    /\ records[Len(records)].title # STOP_TOKEN

\* startTicket after writeTicket gave w
started(w, title) ==
    IF w.err # "" THEN Fatal(w.file)
    ELSE [file |-> w.file, out |-> "STARTING", rep |-> title]

startTicket(f, title, now) == started(writeTicket(f, title, now), title)

\* the title of the first record, for that of the last
stoppedTitle_first(records) == records[1].title

\* last.title, which stopTicket prints
stoppedTitle(records) == records[Len(records)].title

\* stopTicket after writeTicket gave w
stopped(w, title) ==
    IF w.err # "" THEN Fatal(w.file)
    ELSE [file |-> w.file, out |-> "STOPPING", rep |-> title]

\* stopTicket after getRecords gave g
stopOn(g, now) ==
    IF g.err # "" THEN Fatal(g.file)
    ELSE IF Working(g.records)
    THEN stopped(writeTicket(g.file, STOP_TOKEN, now), stoppedTitle(g.records))
    ELSE [file |-> g.file, out |-> "NotWorking", rep |-> <<>>]

stopTicket(f, now) == stopOn(getRecords(f), now)

\* restartDecision that takes one STOP record for a stopped ticket: with one
\* record, or with a STOP before the last STOP, it says "already working"
restartDecision_oneStopOnly(records) ==
    LET numberOfRecords == Len(records)
    IN  IF numberOfRecords = 0 THEN [out |-> "NoRecord", title |-> <<>>]
        ELSE IF numberOfRecords = 1
        THEN [out |-> "NotStopped", title |-> records[1].title]
        ELSE IF records[numberOfRecords].title = STOP_TOKEN
        THEN IF records[numberOfRecords - 1].title = STOP_TOKEN
             THEN [out |-> "NotStopped", title |-> records[numberOfRecords].title]
             ELSE [out |-> "STARTING", title |-> records[numberOfRecords - 1].title]
        ELSE [out |-> "NotStopped", title |-> records[numberOfRecords].title]

\* the switch of restartLastTicket: which yell, or which title to start
restartDecision(records) ==
    LET numberOfRecords == Len(records)
    IN  IF numberOfRecords = 0 THEN [out |-> "NoRecord", title |-> <<>>]
        ELSE IF numberOfRecords = 1
        THEN IF records[1].title = STOP_TOKEN
             THEN [out |-> "NoPreviousTicket", title |-> <<>>]
             ELSE [out |-> "NotStopped", title |-> records[1].title]
        ELSE IF records[numberOfRecords].title = STOP_TOKEN
        THEN IF records[numberOfRecords - 1].title = STOP_TOKEN
             THEN [out |-> "NoPreviousTicket", title |-> <<>>]
             ELSE [out |-> "STARTING", title |-> records[numberOfRecords - 1].title]
        ELSE [out |-> "NotStopped", title |-> records[numberOfRecords].title]

\* restartLastTicket after the switch decided d
restarted(f, d, now) ==
    IF d.out = "STARTING" THEN startTicket(f, d.title, now)
    ELSE [file |-> f, out |-> d.out, rep |-> d.title]

\* restartLastTicket after getRecords gave g
restartOn(g, now) ==
    IF g.err # "" THEN Fatal(g.file)
    ELSE restarted(g.file, restartDecision(g.records), now)

restartLastTicket(f, now) == restartOn(getRecords(f), now)

\* os.Truncate(path, size): a shorter file is padded with NUL bytes
Truncate(f, size) ==
    IF f = NoFile THEN [err |-> "ENOENT", file |-> f]
    ELSE [err |-> "",
          file |-> [i \in 1..size |-> IF i <= Len(f) THEN f[i] ELSE NUL]]

\* the answers the prompt of clearEntries accepts
ValidEntries == {"y\n", "Y\n", "n\n", "N\n", "\n"}

\* the prompt loop of clearEntries on the lines typed: at most 3 are read
userEntry(typed) ==
    IF typed[1] \in ValidEntries THEN typed[1]
    ELSE IF typed[2] \in ValidEntries THEN typed[2]
    ELSE typed[3]

\* clearEntries after os.Truncate gave t
cleared(t) ==
    IF t.err # "" THEN [file |-> t.file, out |-> "fatal"]
    ELSE [file |-> t.file, out |-> "Database cleared"]

clearEntries(f, typed) ==
    IF userEntry(typed) \in {"y\n", "Y\n"}
    THEN cleared(Truncate(f, Len(CSV_HEADER)))
    ELSE [file |-> f, out |-> "Command canceled"]

----------------------------------------------------------------------------
(* The derivations of mate.go: durations per entry, per ticket, in total   *)

RECURSIVE entriesLoop_ownTitle(_, _, _, _, _)

\* entriesLoop that gives a span the title of the record that ends it
entriesLoop_ownTitle(records, i, currentTicketTitle, startTime, tickets) ==
    IF i > Len(records) THEN tickets
    ELSE entriesLoop_ownTitle(records, i + 1, records[i].title, records[i].timestamp,
                     IF i # 1
                     THEN Append(tickets,
                                 [title |-> records[i].title,
                                  duration |-> records[i].timestamp - startTime])
                     ELSE tickets)

RECURSIVE entriesLoop_reversed(_, _, _, _, _)

\* entriesLoop with the subtraction the other way round
entriesLoop_reversed(records, i, currentTicketTitle, startTime, tickets) ==
    IF i > Len(records) THEN tickets
    ELSE entriesLoop_reversed(records, i + 1, records[i].title, records[i].timestamp,
                     IF i # 1
                     THEN Append(tickets,
                                 [title |-> currentTicketTitle,
                                  duration |-> startTime - records[i].timestamp])
                     ELSE tickets)

RECURSIVE entriesLoop_fixedStart(_, _, _, _, _)

\* entriesLoop that never moves startTime on from the first record
entriesLoop_fixedStart(records, i, currentTicketTitle, startTime, tickets) ==
    IF i > Len(records) THEN tickets
    ELSE entriesLoop_fixedStart(records, i + 1, records[i].title,
                     IF i = 1 THEN records[i].timestamp ELSE startTime,
                     IF i # 1
                     THEN Append(tickets,
                                 [title |-> currentTicketTitle,
                                  duration |-> records[i].timestamp - startTime])
                     ELSE tickets)

RECURSIVE entriesLoop(_, _, _, _, _)

\* the range loop of computeEntriesDuration from index i (1-based) on
entriesLoop(records, i, currentTicketTitle, startTime, tickets) ==
    IF i > Len(records) THEN tickets
    ELSE entriesLoop(records, i + 1, records[i].title, records[i].timestamp,
                     IF i # 1
                     THEN Append(tickets,
                                 [title |-> currentTicketTitle,
                                  duration |-> records[i].timestamp - startTime])
                     ELSE tickets)

\* computeEntriesDuration without the test for a STOP at the end
computeEntriesDuration_alwaysTrailing(records, now) ==
    IF Len(records) = 0 THEN <<>>
    ELSE LET tickets == entriesLoop(records, 1, <<>>, 0, <<>>)
             lastRecord == records[Len(records)]
         IN  Append(tickets, [title |-> lastRecord.title,
                              duration |-> now - lastRecord.timestamp])

\* now is time.Now() as computeEntriesDuration sees it, see Now
computeEntriesDuration(records, now) ==
    IF Len(records) = 0 THEN <<>>
    ELSE LET tickets == entriesLoop(records, 1, <<>>, 0, <<>>)
             lastRecord == records[Len(records)]
         IN  IF lastRecord.title # STOP_TOKEN
             THEN Append(tickets, [title |-> lastRecord.title,
                                   duration |-> now - lastRecord.timestamp])
             ELSE tickets

\* time.Parse(TIME_FORMAT, time.Now().Format(TIME_FORMAT))
Now(t) == Parse(Format(t)).time

\* filterStops that keeps every ticket
filterStops_keepsAll(tickets) == tickets

RECURSIVE filterStops(_)

filterStops(tickets) ==
    IF tickets = <<>> THEN <<>>
    ELSE IF Head(tickets).title # STOP_TOKEN
    THEN <<Head(tickets)>> \o filterStops(Tail(tickets))
    ELSE filterStops(Tail(tickets))

RECURSIVE groupLoop_overwrites(_, _)

\* groupLoop with = for +=
groupLoop_overwrites(tickets, groupedTickets) ==
    IF tickets = <<>> THEN groupedTickets
    ELSE LET t == Head(tickets)
         IN  groupLoop_overwrites(Tail(tickets),
                       [k \in DOMAIN groupedTickets \cup {t.title} |->
                            IF k = t.title THEN t.duration
                            ELSE groupedTickets[k]])

RECURSIVE groupLoop(_, _)

\* the range loop of groupDurations: groupedTickets[t.title] += t.duration
groupLoop(tickets, groupedTickets) ==
    IF tickets = <<>> THEN groupedTickets
    ELSE LET t == Head(tickets)
             old == IF t.title \in DOMAIN groupedTickets
                    THEN groupedTickets[t.title] ELSE 0
         IN  groupLoop(Tail(tickets),
                       [k \in DOMAIN groupedTickets \cup {t.title} |->
                            IF k = t.title THEN old + t.duration
                            ELSE groupedTickets[k]])

groupDurations(tickets) == groupLoop(tickets, [k \in {} |-> 0])

RECURSIVE computeTotalTime(_)

computeTotalTime(tickets) ==
    IF tickets = <<>> THEN 0
    ELSE Head(tickets).duration + computeTotalTime(Tail(tickets))

\* getLastTicketTitle that takes the first record for the last
getLastTicketTitle_first(records) ==
    IF Len(records) = 0 THEN STOP_TOKEN ELSE records[1].title

\* getLastTicketTitle on the records read
getLastTicketTitle(records) ==
    IF Len(records) = 0 THEN STOP_TOKEN ELSE records[Len(records)].title

----------------------------------------------------------------------------
(* The reporting commands: the file afterwards, what kind of output was   *)
(* printed (out) and the values printed (view)                             *)

\* 7 hours 30 minutes, in seconds
WORK_DAY == 27000

NoView(f) == [file |-> f, out |-> "fatal", view |-> <<>>]

\* listEntries with the tickets computed
listed(f, tickets) ==
    [file |-> f,
     out |-> IF Len(tickets) = 0 THEN "Nothing to show" ELSE "list",
     view |-> tickets]

\* listEntries after getRecords gave g
listOn(g, now) ==
    IF g.err # "" THEN NoView(g.file)
    ELSE listed(g.file, computeEntriesDuration(g.records, Now(now)))

listEntries(f, now) == listOn(getRecords(f), now)

\* showReport with the tickets grouped
reported(f, tickets) ==
    [file |-> f,
     out |-> IF DOMAIN tickets = {} THEN "Nothing to show" ELSE "report",
     view |-> tickets]

\* showReport after getRecords gave g
reportOn(g, now) ==
    IF g.err # "" THEN NoView(g.file)
    ELSE reported(g.file, groupDurations(filterStops(
                              computeEntriesDuration(g.records, Now(now)))))

showReport(f, now) == reportOn(getRecords(f), now)

\* what showInfo prints
infoView(f, status, totalTime, groupedTickets) ==
    [file |-> f,
     out |-> IF status = STOP_TOKEN THEN "Currently not working" ELSE "Working on",
     view |-> [status |-> status,
               worked |-> IF status \in DOMAIN groupedTickets
                          THEN groupedTickets[status] ELSE 0,
               totalTime |-> totalTime,
               done |-> ~(WORK_DAY - totalTime > 0)]]

\* showInfo with the tickets filtered, after getLastTicketTitle read h
infoWith(tickets, h) ==
    IF h.err # "" THEN NoView(h.file)
    ELSE infoView(h.file, getLastTicketTitle(h.records), computeTotalTime(tickets),
                  groupDurations(tickets))

\* showInfo after getRecords gave g: the records are read a second time, by
\* getLastTicketTitle
infoOn(g, now) ==
    IF g.err # "" THEN NoView(g.file)
    ELSE infoWith(filterStops(computeEntriesDuration(g.records, Now(now))),
                  getRecords(g.file))

showInfo(f, now) == infoOn(getRecords(f), now)

----------------------------------------------------------------------------
(* The program: one action per command of main, and the passing of time *)

\* Titles given on the command line: a plain one; one with a comma and a line
\* feed in it; one that is two double quotes; and the token of a STOP itself
A == <<"A">>
B == <<"B", COMMA, NL>>
QQ == <<QUOTE, QUOTE>>

Titles == {A, B, QQ, STOP_TOKEN}

\* what is typed at the prompt of clear, line by line
Typed == {<<"y\n", "q\n", "q\n">>, <<"q\n", "Y\n", "q\n">>, <<"q\n", "q\n", "y\n">>,
          <<"N\n", "y\n", "y\n">>, <<"\n", "y\n", "y\n">>, <<"q\n", "q\n", "q\n">>}

NoCommand == [op |-> "none", title |-> <<>>, out |-> "", rep |-> <<>>,
              pre |-> NoFile, view |-> <<>>, again |-> ""]

NoCalc == [stage |-> "none"]

\* no invocation in flight
NoRunning == <<>>

Init ==
    /\ file \in {NoFile, <<>>}
    /\ clock = 0
    /\ written = 0
    /\ last = NoCommand
    /\ calc = NoCalc
    /\ running = NoRunning

Tick ==
    /\ clock < MaxClock
    /\ clock' = clock + 1
    /\ UNCHANGED <<file, written, last, calc, running>>

\* mate start "title"
Start(title) ==
    /\ written < MaxEvents
    /\ \E r \in {startTicket(file, title, clock)} :
           /\ file' = r.file
           /\ written' = IF r.out = "STARTING" THEN written + 1 ELSE written
           /\ last' = [op |-> "start", title |-> title, out |-> r.out,
                       rep |-> r.rep, pre |-> file, view |-> <<>>,
                       again |-> ""]
    /\ UNCHANGED <<clock, calc, running>>

\* mate start
Restart ==
    /\ \E r \in {restartLastTicket(file, clock)} :
           /\ r.out = "STARTING" => written < MaxEvents
           /\ file' = r.file
           /\ written' = IF r.out = "STARTING" THEN written + 1 ELSE written
           /\ last' = [op |-> "restart", title |-> <<>>, out |-> r.out,
                       rep |-> r.rep, pre |-> file, view |-> <<>>,
                       again |-> IF last.op = "restart" THEN last.out ELSE ""]
    /\ UNCHANGED <<clock, calc, running>>

\* mate stop
Stop ==
    /\ \E r \in {stopTicket(file, clock)} :
           /\ r.out = "STOPPING" => written < MaxEvents
           /\ file' = r.file
           /\ written' = IF r.out = "STOPPING" THEN written + 1 ELSE written
           /\ last' = [op |-> "stop", title |-> <<>>, out |-> r.out,
                       rep |-> r.rep, pre |-> file, view |-> <<>>,
                       again |-> IF last.op = "stop" THEN last.out ELSE ""]
    /\ UNCHANGED <<clock, calc, running>>

\* mate list
List ==
    /\ \E r \in {listEntries(file, clock)} :
           /\ file' = r.file
           /\ last' = [op |-> "list", title |-> <<>>, out |-> r.out,
                       rep |-> <<>>, pre |-> file, view |-> r.view,
                       again |-> ""]
    /\ UNCHANGED <<clock, written, calc, running>>

\* mate log
Log ==
    /\ \E r \in {showReport(file, clock)} :
           /\ file' = r.file
           /\ last' = [op |-> "log", title |-> <<>>, out |-> r.out,
                       rep |-> <<>>, pre |-> file, view |-> r.view,
                       again |-> ""]
    /\ UNCHANGED <<clock, written, calc, running>>

\* mate info
Info ==
    /\ \E r \in {showInfo(file, clock)} :
           /\ file' = r.file
           /\ last' = [op |-> "info", title |-> <<>>, out |-> r.out,
                       rep |-> <<>>, pre |-> file, view |-> r.view,
                       again |-> ""]
    /\ UNCHANGED <<clock, written, calc, running>>

\* mate clear, with the lines typed at its prompt
Clear(typed) ==
    /\ \E r \in {clearEntries(file, typed)} :
           /\ file' = r.file
           /\ written' = IF r.out = "Database cleared" THEN 0 ELSE written
           /\ last' = [op |-> "clear", title |-> <<>>, out |-> r.out,
                       rep |-> <<>>, pre |-> file, view |-> <<>>,
                       again |-> ""]
    /\ UNCHANGED <<clock, calc, running>>

Next ==
    \/ Tick
    \/ \E title \in Titles : Start(title)
    \/ Restart
    \/ Stop
    \/ List
    \/ Log
    \/ Info
    \/ \E typed \in Typed : Clear(typed)

Spec == Init /\ [][Next]_vars

\* a title that closes its own field and carries a line of its own:
\* mate:STOP"<line feed>"<the first instant>","mate:STOP
INJ == STOP_TOKEN \o <<QUOTE, NL, QUOTE>> \o Format(0) \o <<QUOTE, COMMA, QUOTE>>
       \o STOP_TOKEN

\* Titles of a user who never gives the token of a STOP as a title
UserTitles == {A, B, QQ, INJ}

NextUser ==
    \/ Tick
    \/ \E title \in UserTitles : Start(title)
    \/ Restart
    \/ Stop
    \/ List
    \/ Log
    \/ Info
    \/ \E typed \in Typed : Clear(typed)

SpecUser == Init /\ [][NextUser]_vars

----------------------------------------------------------------------------
(* The derivations on their own: applied, step by step as showInfo chains  *)
(* them, to any sequence of records and to any sequence of tickets         *)

RecordTitles == {A, B, STOP_TOKEN}

SeqsUpTo(S, n) == UNION {[1..k -> S] : k \in 0..n}

\* records and ticket lists with the durations of a working day, in seconds
ScenarioRecords ==
    {[records |-> <<[timestamp |-> 0, title |-> A]>>, now |-> 1800],
     [records |-> <<[timestamp |-> 0, title |-> A],
                    [timestamp |-> 3600, title |-> STOP_TOKEN]>>, now |-> 3600],
     [records |-> <<[timestamp |-> 0, title |-> A],
                    [timestamp |-> 3600, title |-> STOP_TOKEN],
                    [timestamp |-> 5400, title |-> B]>>, now |-> 7200]}

ScenarioTickets ==
    {<<[title |-> A, duration |-> 300], [title |-> A, duration |-> 600],
       [title |-> B, duration |-> 120]>>}

CalcOfRecords(records, now) ==
    [stage |-> "records", from |-> "records", records |-> records, now |-> now,
     raw |-> <<>>, tickets |-> <<>>, grouped |-> <<>>, total |-> 0]

CalcOfTickets(tickets) ==
    [stage |-> "tickets", from |-> "tickets", records |-> <<>>, now |-> 0,
     raw |-> <<>>, tickets |-> tickets, grouped |-> <<>>, total |-> 0]

InitPure ==
    /\ file = NoFile
    /\ clock = 0
    /\ written = 0
    /\ last = NoCommand
    /\ running = NoRunning
    /\ calc \in
         {CalcOfRecords(r, t) :
              r \in SeqsUpTo([timestamp : 0..MaxTime, title : RecordTitles], MaxRecords),
              t \in 0..(MaxTime + 1)}
         \cup {CalcOfRecords(x.records, x.now) : x \in ScenarioRecords}
         \cup {CalcOfTickets(t) :
                 t \in SeqsUpTo([title : RecordTitles, duration : -1..MaxTime], MaxRecords)}
         \cup {CalcOfTickets(t) : t \in ScenarioTickets}

ComputeEntriesDuration ==
    /\ calc.stage = "records"
    /\ calc' = [calc EXCEPT !.stage = "computed",
                            !.tickets = computeEntriesDuration(calc.records, calc.now)]
    /\ UNCHANGED <<file, clock, written, last, running>>

FilterStops ==
    /\ calc.stage \in {"computed", "tickets"}
    /\ calc' = [calc EXCEPT !.stage = "filtered",
                            !.raw = calc.tickets,
                            !.tickets = filterStops(calc.tickets)]
    /\ UNCHANGED <<file, clock, written, last, running>>

ComputeTotalTime ==
    /\ calc.stage = "filtered"
    /\ calc' = [calc EXCEPT !.stage = "totalled",
                            !.total = computeTotalTime(calc.tickets)]
    /\ UNCHANGED <<file, clock, written, last, running>>

GroupDurations ==
    /\ calc.stage = "totalled"
    /\ calc' = [calc EXCEPT !.stage = "grouped",
                            !.grouped = groupDurations(calc.tickets)]
    /\ UNCHANGED <<file, clock, written, last, running>>

NextPure ==
    \/ ComputeEntriesDuration
    \/ FilterStops
    \/ ComputeTotalTime
    \/ GroupDurations

SpecPure == InitPure /\ [][NextPure]_vars

----------------------------------------------------------------------------
(* Invocations of mate side by side.  Each is a process of its own: what   *)
(* it has read is its own, the file is shared, and no lock is taken.  A    *)
(* step is one call of getRecords, of writeTicket or of os.Truncate.       *)

Procs == {1, 2}

RaceTitles == {A, B}

RaceTyped == {<<"y\n", "q\n", "q\n">>, <<"\n", "y\n", "y\n">>}

\* an invocation: its command and argument, where it is (pc), the title it is
\* about to write, the tickets info has computed, the kind of output it
\* printed and the title in it, and the calls it has made on the file (trace)
NoRun == [cmd |-> "none", title |-> <<>>, pc |-> "exit", write |-> <<>>,
          tickets |-> <<>>, out |-> "", rep |-> <<>>, trace |-> <<>>]

\* the invocation prints and exits
exited(run, out, rep) ==
    [run EXCEPT !.pc = "exit", !.write = <<>>, !.tickets = <<>>,
                !.out = out, !.rep = rep]

\* a reporting command prints r and exits
shown(run, r) == exited(run, r.out, <<>>)

\* the invocation has made one more call on the file
called(run, what) == [run EXCEPT !.trace = Append(@, what)]

\* main: the function the command line selects, up to its first call on the
\* file; clearEntries asks first, and the answer is typed
entered(cmd, title, typed) ==
    IF cmd = "start"
    THEN [NoRun EXCEPT !.cmd = cmd, !.title = title, !.pc = "append",
                       !.write = title, !.rep = title]
    ELSE IF cmd = "clear"
    THEN IF userEntry(typed) \in {"y\n", "Y\n"}
         THEN [NoRun EXCEPT !.cmd = cmd, !.pc = "truncate"]
         ELSE [NoRun EXCEPT !.cmd = cmd, !.out = "Command canceled"]
    ELSE [NoRun EXCEPT !.cmd = cmd, !.pc = "read"]

\* stopTicket from the records it read to its decision
stopDecided(run, records) ==
    IF Working(records)
    THEN [run EXCEPT !.pc = "append", !.write = STOP_TOKEN,
                     !.rep = stoppedTitle(records)]
    ELSE exited(run, "NotWorking", <<>>)

\* restartLastTicket after its switch decided d
restartDecided(run, d) ==
    IF d.out = "STARTING"
    THEN [run EXCEPT !.pc = "append", !.write = d.title, !.rep = d.title]
    ELSE exited(run, d.out, d.title)

\* the function of the invocation after its getRecords gave g
afterRead(run, g, now) ==
    IF g.err # "" THEN exited(run, "fatal", <<>>)
    ELSE IF run.cmd = "stop" THEN stopDecided(run, g.records)
    ELSE IF run.cmd = "restart" THEN restartDecided(run, restartDecision(g.records))
    ELSE IF run.cmd = "list" THEN shown(run, listOn(g, now))
    ELSE IF run.cmd = "log" THEN shown(run, reportOn(g, now))
    ELSE [run EXCEPT !.pc = "status",
                     !.tickets = filterStops(computeEntriesDuration(g.records, Now(now)))]

\* an append that looks at the tail again: a stop writes nothing when the
\* ledger it finds is no longer one to stop
appendTicket_tailAgain(run, f, now) ==
    IF run.cmd = "stop" /\ ~Working(getRecords(f).records)
    THEN [err |-> "", file |-> f]
    ELSE writeTicket(f, run.write, now)

\* the writeTicket of the invocation, on the file as it is by then
appendTicket(run, f, now) == writeTicket(f, run.write, now)

\* startTicket and stopTicket after writeTicket gave w
appendedBy(run, w) ==
    exited(run, IF w.err # "" THEN "fatal"
                ELSE IF run.cmd = "stop" THEN "STOPPING" ELSE "STARTING",
           run.rep)

InitRace ==
    /\ file \in {NoFile, <<>>}
    /\ clock = 0
    /\ written = 0
    /\ last = NoCommand
    /\ calc = NoCalc
    /\ running = [p \in Procs |-> NoRun]

\* a command is entered in a shell that runs none
Begin(p, cmd, title, typed) ==
    /\ running[p].pc = "exit"
    /\ running' = [running EXCEPT ![p] = entered(cmd, title, typed)]
    /\ UNCHANGED <<file, clock, written, last, calc>>

\* the getRecords of stopTicket, restartLastTicket, listEntries, showReport
\* and showInfo
ReadRecords(p) ==
    /\ running[p].pc = "read"
    /\ \E g \in {getRecords(file)} :
           /\ file' = g.file
           /\ running' = [running EXCEPT
                             ![p] = afterRead(called(running[p], "read"), g, clock)]
    /\ UNCHANGED <<clock, written, last, calc>>

\* the getRecords of getLastTicketTitle, which showInfo calls after its own
ReadStatus(p) ==
    /\ running[p].pc = "status"
    /\ \E h \in {getRecords(file)} :
           /\ file' = h.file
           /\ running' = [running EXCEPT
                             ![p] = shown(called(running[p], "read"),
                                          infoWith(running[p].tickets, h))]
    /\ UNCHANGED <<clock, written, last, calc>>

\* the writeTicket of startTicket and of stopTicket
AppendTicket(p) ==
    /\ running[p].pc = "append"
    /\ written < MaxEvents
    /\ \E w \in {appendTicket(running[p], file, clock)} :
           /\ file' = w.file
           /\ running' = [running EXCEPT
                             ![p] = appendedBy(called(running[p], "append"), w)]
    /\ written' = written + 1
    /\ UNCHANGED <<clock, last, calc>>

\* the os.Truncate of clearEntries
TruncateFile(p) ==
    /\ running[p].pc = "truncate"
    /\ \E t \in {cleared(Truncate(file, Len(CSV_HEADER)))} :
           /\ file' = t.file
           /\ written' = IF t.out = "Database cleared" THEN 0 ELSE written
           /\ running' = [running EXCEPT
                             ![p] = exited(called(running[p], "truncate"),
                                           t.out, <<>>)]
    /\ UNCHANGED <<clock, last, calc>>

\* the invocations run within one second of the clock
NextRace ==
    \E p \in Procs :
        \/ \E title \in RaceTitles : Begin(p, "start", title, <<>>)
        \/ \E cmd \in {"restart", "stop", "list", "log", "info"} :
               Begin(p, cmd, <<>>, <<>>)
        \/ \E typed \in RaceTyped : Begin(p, "clear", <<>>, typed)
        \/ ReadRecords(p)
        \/ ReadStatus(p)
        \/ AppendTicket(p)
        \/ TruncateFile(p)

SpecRace == InitRace /\ [][NextRace]_vars

----------------------------------------------------------------------------
(* Properties.  The vocabulary of the documentation, defined on its own:   *)
(* the ledger is what readAll returns, the session is Idle when the ledger *)
(* is empty or ends with STOP.                                             *)

Readable(f) == getRecords(f).err = ""

Ledger(f) == getRecords(f).records

LastOf(events) == events[Len(events)]

SessionIdle(events) == events = <<>> \/ LastOf(events).title = STOP_TOKEN

\* after is before plus exactly one event, which carries title
AppendsOne(before, after, title) ==
    /\ Len(after) = Len(before) + 1
    /\ SubSeq(after, 1, Len(before)) = before
    /\ LastOf(after).title = title

\* C1: stop() while the session is Idle appends nothing and leaves the ledger
\* as it was; two stop() calls in a row append at most one STOP event in
\* total, exactly one if the session was Working before the first, and the
\* second call is a no-op.  (A Stop step is told by its first two conjuncts.)
C1_StopWhileIdleIsNoOp ==
    [][(last'.op = "stop" /\ clock' = clock /\ Stop) =>
        LET before == getRecords(file)
            after == getRecords(file')
            first == getRecords(last.pre)
        IN  /\ (before.err = "" /\ SessionIdle(before.records)) =>
                  /\ last'.out = "NotWorking"
                  /\ after.err = ""
                  /\ after.records = before.records
            /\ (last.op = "stop" /\ first.err = "") =>
                  /\ last'.out = "NotWorking"
                  /\ after.err = ""
                  /\ after.records = before.records
                  /\ IF SessionIdle(first.records)
                     THEN after.records = first.records
                     ELSE AppendsOne(first.records, after.records, STOP_TOKEN)
    ]_vars

\* a second stop() in a row was a no-op, after a first one that stopped a ticket
C1_Witness ==
    /\ last.op = "stop"
    /\ last.again = "STOPPING"
    /\ last.out = "NotWorking"
    /\ Readable(file)
    /\ Ledger(file) = Ledger(last.pre)
    /\ LastOf(Ledger(file)).title = STOP_TOKEN

\* C2: stop() while the session is Working(t) appends exactly one event, whose
\* title is STOP, reports t, and leaves the session Idle.
C2_StopWhileWorking ==
    last.op = "stop" =>
        LET before == getRecords(last.pre)
            after == getRecords(file)
        IN  (before.err = "" /\ ~SessionIdle(before.records)) =>
                /\ last.out = "STOPPING"
                /\ last.rep = LastOf(before.records).title
                /\ after.err = ""
                /\ AppendsOne(before.records, after.records, STOP_TOKEN)
                /\ SessionIdle(after.records)

C2_Witness ==
    /\ last.op = "stop"
    /\ last.out = "STOPPING"
    /\ Readable(last.pre)
    /\ Len(Ledger(last.pre)) >= 2
    /\ last.rep = LastOf(Ledger(last.pre)).title
    /\ last.rep # STOP_TOKEN

\* C3: resumeLast() on a ledger of at least 2 events whose last event is STOP
\* and whose second-to-last is not appends exactly one event carrying the
\* second-to-last title and reports it; the session is then Working(that title).
C3_ResumeAppendsPenultimate ==
    last.op = "restart" =>
        LET before == getRecords(last.pre)
            after == getRecords(file)
            n == Len(before.records)
        IN  (/\ before.err = ""
             /\ n >= 2
             /\ before.records[n].title = STOP_TOKEN
             /\ before.records[n - 1].title # STOP_TOKEN) =>
                /\ last.out = "STARTING"
                /\ last.rep = before.records[n - 1].title
                /\ after.err = ""
                /\ AppendsOne(before.records, after.records, before.records[n - 1].title)
                /\ ~SessionIdle(after.records)

\* the outcome the documentation names for resumeLast() on a ledger
ResumeOutcome(events) ==
    LET n == Len(events)
    IN  IF n = 0 THEN <<"NoRecord", <<>>>>
        ELSE IF n = 1 /\ events[1].title = STOP_TOKEN THEN <<"NoPreviousTicket", <<>>>>
        ELSE IF n = 1 THEN <<"NotStopped", events[1].title>>
        ELSE IF events[n].title # STOP_TOKEN THEN <<"NotStopped", events[n].title>>
        ELSE IF events[n - 1].title = STOP_TOKEN THEN <<"NoPreviousTicket", <<>>>>
        ELSE <<"resumable", events[n - 1].title>>

\* C4: resumeLast() gives every non-resumable ledger exactly one of the named
\* outcomes: NoHistoryError (NoRecord) for 0 events; for 1 event
\* NoPreviousTicketError if it is STOP, else AlreadyWorkingError (NotStopped)
\* with its title; for 2 or more AlreadyWorkingError with the last title if the
\* last is not STOP, NoPreviousTicketError if the last two are STOP.
C4_ResumeClassifies ==
    last.op = "restart" =>
        LET before == getRecords(last.pre)
            expected == ResumeOutcome(before.records)
        IN  (before.err = "" /\ expected[1] # "resumable") =>
                /\ last.out = expected[1]
                /\ last.rep = expected[2]

\* resumeLast() found two STOP events at the end of a longer ledger
C4_Witness ==
    /\ last.op = "restart"
    /\ last.out = "NoPreviousTicket"
    /\ Readable(last.pre)
    /\ Len(Ledger(last.pre)) >= 2

\* C5: start(title) appends exactly one event with the given title whatever
\* the session state: when the state is Working(A), no STOP is inserted, the
\* earlier events are unchanged and the segment of A ends at the new event's
\* timestamp.
C5_StartAppendsOne ==
    last.op = "start" =>
        LET before == getRecords(last.pre)
            after == getRecords(file)
            n == Len(before.records)
        IN  before.err = "" =>
                /\ after.err = ""
                /\ AppendsOne(before.records, after.records, last.title)
                /\ ~SessionIdle(before.records) =>
                      computeEntriesDuration(after.records, Now(clock))[n] =
                          [title |-> before.records[n].title,
                           duration |-> after.records[n + 1].timestamp
                                        - before.records[n].timestamp]

\* C6: after start(title), readAll() returns that exact title as the title of
\* the new last event, for every title text, with the earlier events before it.
C6_RoundTrip ==
    (last.op = "start" /\ last.out = "STARTING") =>
        LET before == getRecords(last.pre)
            after == getRecords(file)
        IN  /\ after.err = ""
            /\ after.records # <<>>
            /\ LastOf(after.records).title = last.title
            /\ before.err = "" =>
                  SubSeq(after.records, 1, Len(after.records) - 1) = before.records

----------------------------------------------------------------------------
(* Properties of the derivations *)

\* C7: computeSegments gives, for every adjacent pair (e[i], e[i+1]) and in
\* the same order, one segment with the title of e[i] and the duration
\* e[i+1].timestamp - e[i].timestamp, also when e[i] is a STOP; no events
\* give no segments.
C7_SegmentPerAdjacentPair ==
    calc.stage = "computed" =>
        LET e == calc.records
            n == Len(e)
        IN  /\ n = 0 => calc.tickets = <<>>
            /\ n >= 1 => Len(calc.tickets) >= n - 1
            /\ \A i \in 1..(n - 1) :
                   calc.tickets[i] = [title |-> e[i].title,
                                      duration |-> e[i + 1].timestamp - e[i].timestamp]

\* three events, the first a STOP that lasts: its span is the first segment
C7_Witness ==
    /\ calc.stage = "computed"
    /\ Len(calc.records) = 3
    /\ calc.records[1].title = STOP_TOKEN
    /\ calc.records[2].title = A
    /\ calc.records[2].timestamp > calc.records[1].timestamp
    /\ calc.tickets[1] = [title |-> STOP_TOKEN,
                          duration |-> calc.records[2].timestamp
                                       - calc.records[1].timestamp]

\* C8: computeSegments gives an open trailing segment {last.title,
\* now - last.timestamp} if and only if there are events and the last is not a
\* STOP: n segments for n >= 1 events ending in a non-STOP, n - 1 segments
\* for n events ending in STOP.
C8_TrailingSegment ==
    calc.stage = "computed" =>
        LET e == calc.records
            n == Len(e)
        IN  /\ n = 0 => Len(calc.tickets) = 0
            /\ (n >= 1 /\ e[n].title # STOP_TOKEN) =>
                   /\ Len(calc.tickets) = n
                   /\ calc.tickets[n] = [title |-> e[n].title,
                                         duration |-> calc.now - e[n].timestamp]
            /\ (n >= 1 /\ e[n].title = STOP_TOKEN) => Len(calc.tickets) = n - 1

\* [(t0, A)] with now = t0 + 30m gives [{A, 30m}]
C8_Witness ==
    /\ calc.stage = "computed"
    /\ calc.records = <<[timestamp |-> 0, title |-> A]>>
    /\ calc.now = 1800
    /\ calc.tickets = <<[title |-> A, duration |-> 1800]>>

RECURSIVE WorkedFrom(_, _, _)

\* the spans, to the next event or to now, of the events from i on that are not STOP
WorkedFrom(e, now, i) ==
    IF i > Len(e) THEN 0
    ELSE (IF e[i].title = STOP_TOKEN THEN 0
          ELSE (IF i < Len(e) THEN e[i + 1].timestamp ELSE now) - e[i].timestamp)
         + WorkedFrom(e, now, i + 1)

NotStop(t) == t.title # STOP_TOKEN

\* C9: the total worked time info computes is the sum, over the events that
\* are not STOP, of the span to the next event, or to now for the last;
\* filterSeparators removes every STOP segment and keeps the others in order.
C9_IdleTimeNotWorked ==
    /\ calc.stage \in {"filtered", "totalled", "grouped"} =>
           calc.tickets = SelectSeq(calc.raw, NotStop)
    /\ (calc.stage \in {"totalled", "grouped"} /\ calc.from = "records") =>
           calc.total = WorkedFrom(calc.records, calc.now, 1)

\* [(t0, A), (t0+1h, STOP), (t0+1h30, B)] with now = t0+2h: of the three
\* segments two are left, and 1h30 worked; the 30m of the STOP are not in it
C9_Witness ==
    /\ calc.stage = "totalled"
    /\ calc.from = "records"
    /\ calc.records = <<[timestamp |-> 0, title |-> A],
                        [timestamp |-> 3600, title |-> STOP_TOKEN],
                        [timestamp |-> 5400, title |-> B]>>
    /\ calc.now = 7200
    /\ Len(calc.raw) = 3
    /\ calc.tickets = <<[title |-> A, duration |-> 3600],
                        [title |-> B, duration |-> 1800]>>
    /\ calc.total = 5400

RECURSIVE DurationOf(_, _), SumOver(_, _)

\* the durations of the segments that carry title, added up
DurationOf(segments, title) ==
    IF segments = <<>> THEN 0
    ELSE (IF Head(segments).title = title THEN Head(segments).duration ELSE 0)
         + DurationOf(Tail(segments), title)

\* the values of the mapping g on the keys K, added up
SumOver(g, K) ==
    IF K = {} THEN 0
    ELSE LET k == CHOOSE x \in K : TRUE
         IN  g[k] + SumOver(g, K \ {k})

\* C10: totalDuration(filterSeparators(segments)) is the sum of the values of
\* groupByTitle(filterSeparators(segments)), which maps each title of its
\* input to the sum of the durations of the segments with that title.
C10_Conservation ==
    calc.stage = "grouped" =>
        /\ DOMAIN calc.grouped = {calc.tickets[i].title : i \in DOMAIN calc.tickets}
        /\ \A k \in DOMAIN calc.grouped :
               calc.grouped[k] = DurationOf(calc.tickets, k)
        /\ calc.total = SumOver(calc.grouped, DOMAIN calc.grouped)

\* [{A,5m},{A,10m},{B,2m}] gives {A: 15m, B: 2m} and 17m in total
C10_Witness ==
    /\ calc.stage = "grouped"
    /\ calc.raw = <<[title |-> A, duration |-> 300], [title |-> A, duration |-> 600],
                    [title |-> B, duration |-> 120]>>
    /\ calc.grouped = (A :> 900) @@ (B :> 120)
    /\ calc.total = 1020

----------------------------------------------------------------------------
(* Properties of clear, of the ledger as a whole, and of the status *)

\* C11: clear() removes all events and restores the empty-ledger state from
\* any prior state of the backing store, a store that does not exist yet or is
\* an empty file included, also when run twice in a row: after it readAll()
\* returns no events and a following start(title) gives a ledger of exactly
\* one event.
C11_ClearRestoresEmpty ==
    (last.op = "clear" /\ last.out # "Command canceled") =>
        LET after == getRecords(file)
            next == getRecords(startTicket(file, A, clock).file)
        IN  /\ after.err = ""
            /\ after.records = <<>>
            /\ next.err = ""
            /\ Len(next.records) = 1
            /\ next.records[1].title = A

\* the timestamps of the events never go down
NonDecreasing(events) ==
    \A i \in 1..(Len(events) - 1) : events[i].timestamp <= events[i + 1].timestamp

\* C12: in every ledger reachable by start, stop, resumeLast and clear the
\* timestamps of the events are non-decreasing in ledger order.
C12_TimestampsNonDecreasing ==
    Readable(file) => NonDecreasing(Ledger(file))

\* C13: when the timestamps are non-decreasing, the segment of every pair of
\* adjacent events has a duration >= 0; when now is also at or after the
\* last event, so has the open trailing segment, and every segment, every
\* total per title and the grand total are >= 0.
C13_SegmentsNonNegative ==
    (calc.from = "records" /\ calc.stage # "records" /\ NonDecreasing(calc.records)) =>
        LET n == Len(calc.records)
            segments == IF calc.stage = "computed" THEN calc.tickets ELSE calc.raw
        IN  /\ \A i \in 1..(n - 1) : segments[i].duration >= 0
            /\ (n > 0 /\ calc.now >= calc.records[n].timestamp) =>
                   /\ \A i \in DOMAIN segments : segments[i].duration >= 0
                   /\ \A i \in DOMAIN calc.tickets : calc.tickets[i].duration >= 0
                   /\ calc.stage \in {"totalled", "grouped"} => calc.total >= 0
                   /\ calc.stage = "grouped" =>
                          \A k \in DOMAIN calc.grouped : calc.grouped[k] >= 0

\* [(t0, A), (t0+1h, STOP), (t0+1h30, B)] with now = t0+2h: 1h for A, 30m for
\* B, 1h30 in total
C13_Witness ==
    /\ calc.stage = "grouped"
    /\ calc.from = "records"
    /\ NonDecreasing(calc.records)
    /\ Len(calc.records) = 3
    /\ calc.now = 7200
    /\ calc.raw[2] = [title |-> STOP_TOKEN, duration |-> 1800]
    /\ calc.grouped = (A :> 3600) @@ (B :> 1800)
    /\ calc.total = 5400

\* C14: currentStatus() is STOP for an empty ledger and the title of the last
\* event otherwise, and it alone tells idle from working: it is STOP exactly
\* when stop() would be a no-op, and exactly when computeSegments gives no
\* open trailing segment.
C14_StatusDecides ==
    (last.op = "info" /\ last.out # "fatal") =>
        LET events == Ledger(file)
            status == last.view.status
            segments == computeEntriesDuration(events, Now(clock))
            stop == stopTicket(file, clock)
        IN  /\ status = IF events = <<>> THEN STOP_TOKEN ELSE LastOf(events).title
            /\ (status = STOP_TOKEN) <=> (stop.out = "NotWorking" /\ stop.file = file)
            /\ (status = STOP_TOKEN) <=> ~(events # <<>> /\ Len(segments) = Len(events))
            /\ (status = STOP_TOKEN) <=> (last.out = "Currently not working")

\* info after a ticket was stopped: events in the ledger, and the status is STOP
C14_Witness ==
    /\ last.op = "info"
    /\ last.out = "Currently not working"
    /\ last.view.status = STOP_TOKEN
    /\ Len(Ledger(file)) >= 2
    /\ Ledger(file)[1].title # STOP_TOKEN
    /\ stopTicket(file, clock).out = "NotWorking"

----------------------------------------------------------------------------
(* Properties of invocations side by side *)

\* C15: invocations are not synchronized.  A stop() that has read a Working
\* ledger and decided to stop t appends one STOP event and reports t whatever
\* the ledger has become since: two stop() calls that both read the tail in
\* Working(A) before either appends both append, which leaves two STOP
\* events in a row, and a stop() beside a start(B) can append its STOP after
\* B although it decided on A.
C15_Unsynchronized ==
    [][\A p \in Procs :
           (/\ running[p].pc = "append"
            /\ running'[p].pc = "exit"
            /\ running[p].cmd = "stop"
            /\ Readable(file)) =>
               /\ running'[p].out = "STOPPING"
               /\ running'[p].rep = running[p].rep
               /\ Readable(file')
               /\ AppendsOne(Ledger(file), Ledger(file'), STOP_TOKEN)
    ]_vars

\* both invocations of stop stopped A, and the ledger is [A, STOP, STOP]
C15_Witness ==
    /\ \A p \in Procs : /\ running[p].cmd = "stop"
                         /\ running[p].pc = "exit"
                         /\ running[p].out = "STOPPING"
                         /\ running[p].rep = A
    /\ Readable(file)
    /\ Len(Ledger(file)) = 3
    /\ Ledger(file)[1].title = A
    /\ Ledger(file)[2].title = STOP_TOKEN
    /\ Ledger(file)[3].title = STOP_TOKEN

\* a stop that stopped A beside a start of B: the ledger is [A, B, STOP]
C15_StopAfterStart ==
    /\ \E p \in Procs : /\ running[p].cmd = "stop"
                         /\ running[p].pc = "exit"
                         /\ running[p].out = "STOPPING"
                         /\ running[p].rep = A
    /\ \E p \in Procs : /\ running[p].cmd = "start"
                         /\ running[p].pc = "exit"
                         /\ running[p].out = "STARTING"
                         /\ running[p].rep = B
    /\ Readable(file)
    /\ Len(Ledger(file)) = 3
    /\ Ledger(file)[1].title = A
    /\ Ledger(file)[2].title = B
    /\ Ledger(file)[3].title = STOP_TOKEN

\* how many calls of one kind an invocation has made
CountOf(trace, what) == Cardinality({i \in DOMAIN trace : trace[i] = what})

\* C16: every invocation of a command performs at most one cycle of read,
\* then decide, then append: it reads the events of the ledger at most once,
\* appends at most one event, and appends only after it has read.
C16_OneCycle ==
    \A p \in DOMAIN running :
        LET trace == running[p].trace
        IN  /\ CountOf(trace, "read") <= 1
            /\ CountOf(trace, "append") <= 1
            /\ \A i, j \in DOMAIN trace :
                   (trace[i] = "append" /\ trace[j] = "read") => j < i

----------------------------------------------------------------------------
(* Properties of the ledger over the commands, and of resumeLast *)

IsPrefix(before, after) ==
    /\ Len(before) <= Len(after)
    /\ SubSeq(after, 1, Len(before)) = before

\* C17: the ledger is append-only: for start, stop, resumeLast and the
\* reporting commands log, list and info, the ledger before the command is a
\* prefix of the ledger after it, and the reporting commands leave the
\* events as they are; only clear takes events away.
C17_AppendOnly ==
    (/\ last.op \in {"start", "stop", "restart", "list", "log", "info"}
     /\ Readable(last.pre)) =>
        /\ Readable(file)
        /\ IsPrefix(Ledger(last.pre), Ledger(file))
        /\ last.op \in {"list", "log", "info"} => Ledger(file) = Ledger(last.pre)

\* C18: when commands run one after the other and no title given by the user
\* is the STOP token, the ledger never begins with a STOP event and never
\* holds two STOP events in a row; so resumeLast() never reports
\* NoPreviousTicketError, and it succeeds exactly when the ledger is not empty
\* and the session is Idle.
C18_NoStopRuns ==
    /\ Readable(file) =>
           LET e == Ledger(file)
           IN  /\ e # <<>> => e[1].title # STOP_TOKEN
               /\ \A i \in 1..(Len(e) - 1) :
                      ~(e[i].title = STOP_TOKEN /\ e[i + 1].title = STOP_TOKEN)
    /\ last.op = "restart" =>
           /\ last.out # "NoPreviousTicket"
           /\ Readable(last.pre) =>
                  (last.out = "STARTING" <=>
                       (Ledger(last.pre) # <<>> /\ SessionIdle(Ledger(last.pre))))

\* C19: a resumeLast() that ends in NoHistoryError, NoPreviousTicketError or
\* AlreadyWorkingError leaves the ledger unchanged; so of two resumeLast()
\* calls in a row from a resumable state only the first appends: the second
\* reports AlreadyWorkingError with the resumed title and appends nothing.
C19_ResumeFailuresLeaveLedger ==
    last.op = "restart" =>
        /\ (/\ last.out \in {"NoRecord", "NoPreviousTicket", "NotStopped"}
            /\ Readable(last.pre)) =>
               /\ Readable(file)
               /\ Ledger(file) = Ledger(last.pre)
        /\ last.again = "STARTING" =>
               /\ last.out = "NotStopped"
               /\ Readable(last.pre)
               /\ last.rep = LastOf(Ledger(last.pre)).title
               /\ Readable(file)
               /\ Ledger(file) = Ledger(last.pre)

----------------------------------------------------------------------------
(* The segments and the time they cover *)

RECURSIVE SumDurations(_, _)

\* the durations of the segments from index i on, added up
SumDurations(segments, i) ==
    IF i > Len(segments) THEN 0
    ELSE segments[i].duration + SumDurations(segments, i + 1)

\* C20: for events that are not empty, the durations of all the segments of
\* computeSegments, those of STOP included, add up to now - first.timestamp
\* when the last event is not STOP, and to last.timestamp - first.timestamp
\* when it is: the segments tile the span without gap or overlap.
C20_SegmentsTile ==
    (calc.stage = "computed" /\ calc.records # <<>>) =>
        LET e == calc.records
            n == Len(e)
        IN  SumDurations(calc.tickets, 1) =
                (IF e[n].title # STOP_TOKEN THEN calc.now ELSE e[n].timestamp)
                - e[1].timestamp

\* [(t0, A), (t0+1h, STOP), (t0+1h30, B)] with now = t0+2h: 1h, 30m and 30m
C20_Witness ==
    /\ calc.stage = "computed"
    /\ Len(calc.records) = 3
    /\ calc.now = 7200
    /\ calc.tickets = <<[title |-> A, duration |-> 3600],
                        [title |-> STOP_TOKEN, duration |-> 1800],
                        [title |-> B, duration |-> 1800]>>
    /\ SumDurations(calc.tickets, 1) = calc.now - calc.records[1].timestamp

====
